---- MODULE Spec2Model ----
(***************************************************************************)
(* Loan-Payment-Tracker: the amortization table builder                    *)
(* (build-amortization-table.py) and the payment tracker                   *)
(* (payment-tracker.py), which talk to each other through two CSV files,   *)
(* and the receipt writer (create_receipt_pdf.py), which the tracker       *)
(* script runs on the last row of the ledger file.                         *)
(*                                                                         *)
(* Money is held in mils (1/1000 of a currency unit): the builder rounds   *)
(* principal and interest to 3 decimals, everything else to 2 or 1.        *)
(* Python's round() and "{:,.2f}".format() are modelled as                 *)
(* round-half-to-even on the decimal value.                                *)
(* A datetime is a record [year, month, day, hour].                        *)
(* An optional value (Python None) is <<>>, a present value v is <<v>>.    *)
(* The text of a check number is the sequence of its characters.           *)
(***************************************************************************)
EXTENDS Integers, Sequences, FiniteSets, TLC

VARIABLES
    builds,             \* builder: how many times it has been run
    args,               \* builder: the command line of the last run
    due_dates,          \* builder: what list_due_dates returned in the last run
    amortization_json,  \* builder: the schedule in memory at the end of the last run
    build_error,        \* builder: "none", or the exception that ended the last run
    amortization_csv,   \* the exported table file (rows), <<>> when not written
    payments_csv,       \* the ledger file payments.csv (rows after the header)
    payment_error,      \* tracker: "none", or the exception that ended the last run
    payment_json,       \* receipt: what payment_details returned in the last run
    receipt_error       \* receipt: "none", or the exception that ended the last run

vars == <<builds, args, due_dates, amortization_json, build_error,
          amortization_csv, payments_csv, payment_error, payment_json, receipt_error>>

(***************************************************************************)
(* Bounds of the model.                                                    *)
(***************************************************************************)
MaxTerm == 3          \* longest term length (months) the builder is run with
MaxBuilds == 1        \* how many times the builder is run
MaxDaysLate == 5      \* most days late the late fee is compared over

None == <<>>
Some(v) == <<v>>
Val(o) == o[1]

(***************************************************************************)
(* Exact arithmetic on rationals within TLC's 32-bit integers.             *)
(***************************************************************************)
Abs(x) == IF x < 0 THEN -x ELSE x

RECURSIVE Pow(_, _)
Pow(x, n) == IF n = 0 THEN 1 ELSE x * Pow(x, n - 1)

RECURSIVE Gcd(_, _)
Gcd(x, y) == IF y = 0 THEN x ELSE Gcd(y, x % y)

\* <<q, r>> with a * b = q * c + r and 0 <= r < c, for a, b >= 0 and c > 0,
\* without ever forming the product a * b.
RECURSIVE MulDivRem(_, _, _)
MulDivRem(a, b, c) ==
    IF b = 0 THEN <<0, 0>>
    ELSE LET h == MulDivRem(a, b \div 2, c)
             odd == (b % 2 = 1)
             t == 2 * h[2] + (IF odd THEN a % c ELSE 0)
         IN  <<2 * h[1] + (IF odd THEN a \div c ELSE 0) + (t \div c), t % c>>

\* a * b / c rounded to the nearest integer, ties to even (a, b >= 0, c > 0).
RoundMulDiv(a, b, c) ==
    LET qr == MulDivRem(a, b, c)
    IN  IF 2 * qr[2] > c THEN qr[1] + 1
        ELSE IF 2 * qr[2] < c THEN qr[1]
        ELSE IF qr[1] % 2 = 0 THEN qr[1] ELSE qr[1] + 1

\* round(x, digits) of a value x held in mils: the result is again in mils.
\* unit is 1 for 3 decimals, 10 for 2 decimals, 100 for 1 decimal.
RoundMils(x, unit) ==
    LET s == IF x < 0 THEN -1 ELSE 1
    IN  s * RoundMulDiv(Abs(x), 1, unit) * unit

(***************************************************************************)
(* Calendar: datetime, timedelta, relativedelta                            *)
(***************************************************************************)
IsLeap(y) == (y % 4 = 0 /\ y % 100 # 0) \/ y % 400 = 0

DaysInMonth(y, m) ==
    IF m = 2 THEN (IF IsLeap(y) THEN 29 ELSE 28)
    ELSE IF m \in {4, 6, 9, 11} THEN 30 ELSE 31

DateTime(y, m, d, h) == [year |-> y, month |-> m, day |-> d, hour |-> h]

\* datetime + relativedelta(months=n): the day is clamped to the month's length
AddMonths(dt, n) ==
    LET k == (dt.year * 12 + (dt.month - 1)) + n
        y == k \div 12
        m == (k % 12) + 1
        d == IF dt.day > DaysInMonth(y, m) THEN DaysInMonth(y, m) ELSE dt.day
    IN  DateTime(y, m, d, dt.hour)

NextDay(dt) ==
    IF dt.day < DaysInMonth(dt.year, dt.month)
    THEN [dt EXCEPT !.day = dt.day + 1]
    ELSE IF dt.month < 12
         THEN [dt EXCEPT !.month = dt.month + 1, !.day = 1]
         ELSE [dt EXCEPT !.year = dt.year + 1, !.month = 1, !.day = 1]

\* datetime + timedelta(days=n), n >= 0, a month at a time
RECURSIVE AddDays(_, _)
AddDays(dt, n) ==
    IF dt.day + n <= DaysInMonth(dt.year, dt.month)
    THEN [dt EXCEPT !.day = dt.day + n]
    ELSE AddDays(NextDay([dt EXCEPT !.day = DaysInMonth(dt.year, dt.month)]),
                 n - (DaysInMonth(dt.year, dt.month) - dt.day) - 1)

\* datetime + timedelta(days, hours)
AddDelta(dt, days, hours) ==
    LET h == dt.hour + hours
    IN  [AddDays(dt, days + (h \div 24)) EXCEPT !.hour = h % 24]

\* datetime comparison a <= b
DateLeq(a, b) ==
    \/ a.year < b.year
    \/ a.year = b.year /\ a.month < b.month
    \/ a.year = b.year /\ a.month = b.month /\ a.day < b.day
    \/ a.year = b.year /\ a.month = b.month /\ a.day = b.day /\ a.hour <= b.hour

RECURSIVE DaysBeforeMonth(_, _)
DaysBeforeMonth(y, m) ==
    IF m = 1 THEN 0 ELSE DaysBeforeMonth(y, m - 1) + DaysInMonth(y, m - 1)

\* datetime.toordinal(): days since 0001-01-01, that day being 1
Ordinal(dt) ==
    LET y == dt.year - 1
    IN  y * 365 + (y \div 4) - (y \div 100) + (y \div 400)
        + DaysBeforeMonth(dt.year, dt.month) + dt.day

\* (a - b).days for two datetimes: the whole days of the difference (floor)
DaysBetween(a, b) ==
    LET hours == (Ordinal(a) - Ordinal(b)) * 24 + (a.hour - b.hour)
    IN  IF hours >= 0 THEN hours \div 24 ELSE -((-hours + 23) \div 24)

\* strftime("%B %d, %Y") keeps the month, the day and the year and drops the
\* time of day; strptime of that text gives midnight of that day.
Strftime(dt) == <<dt.month, dt.day, dt.year>>
Strptime(s) == DateTime(s[3], s[1], s[2], 0)

(***************************************************************************)
(* build-amortization-table.py                                             *)
(***************************************************************************)
\* Lines 164-171: the days the loop "while start <= end: ...; start += delta"
\* visits are start, start + 1 day, ..., up to the last one not after end; the
\* ones on the 10th of a month are kept, in order, as strftime texts.
IsTenth(dt) == dt.day = 10

ScannedDays(start, end) ==
    IF DateLeq(start, end)
    THEN [i \in 1..(DaysBetween(end, start) + 1) |-> AddDays(start, i - 1)]
    ELSE <<>>

list_due_dates(start_date, end_date) ==
    LET start == AddDelta(start_date, 7, 12)
        end == AddDelta(end_date, 7, 12)
        kept == SelectSeq(ScannedDays(start, end), IsTenth)
    IN  [i \in 1..Len(kept) |-> Strftime(kept[i])]

\* The monthly rate interest_rate_annual / 12 as a fraction <<a, b>> in lowest
\* terms; the annual rate is given as a fraction <<n, d>>.
MonthlyRate(interest_rate_annual) ==
    LET n == interest_rate_annual[1]
        d == interest_rate_annual[2] * 12
        g == Gcd(n, d)
    IN  <<n \div g, d \div g>>

\* numpy_financial's pmt, ipmt and ppmt for a loan of pv = -loan_amount, payments
\* at the end of each period: the level payment, and the interest and the
\* principal parts of payment number per. Each is the exact real number
\* p * num / den; with 1 + rate = g / b,
\*   pmt  = loan * rate * (1+rate)^n / ((1+rate)^n - 1)
\*   ipmt = rate * (balance left after per - 1 payments)
\*   ppmt = pmt - ipmt
Real(p, num, den) == [p |-> p, num |-> num, den |-> den]

Growth(rate, n) == Pow(rate[1] + rate[2], n) - Pow(rate[2], n)

pmt(rate, nper, loan) ==
    Real(loan, rate[1] * Pow(rate[1] + rate[2], nper), rate[2] * Growth(rate, nper))

ipmt(rate, per, nper, loan) ==
    Real(loan,
         rate[1] * (Pow(rate[1] + rate[2], nper)
                    - Pow(rate[1] + rate[2], per - 1) * Pow(rate[2], nper - per + 1)),
         rate[2] * Growth(rate, nper))

ppmt(rate, per, nper, loan) ==
    Real(loan,
         rate[1] * Pow(rate[1] + rate[2], per - 1) * Pow(rate[2], nper - per),
         Growth(rate, nper))

\* round(float(x), digits) of a real x = p * num / den, p a whole number of
\* cents held in mils; the result is in mils (unit as for RoundMils).
RoundReal(x, unit) == RoundMulDiv(x.p \div unit, x.num, x.den) * unit

\* Lines 109-132: one entry per term month, balances not yet known.
FirstEntry(term_month, due_dates_list, loan_amount, rate, term_length_months) ==
    [StartBalance |-> IF term_month = 1 THEN Some(loan_amount) ELSE None,
     DueDate      |-> due_dates_list[term_month],
     AmountDue    |-> RoundReal(pmt(rate, term_length_months, loan_amount), 10),
     ExtraPayment |-> None,
     TotalPayment |-> None,
     PrincipalDue |-> RoundReal(ppmt(rate, term_month, term_length_months, loan_amount), 1),
     InterestDue  |-> RoundReal(ipmt(rate, term_month, term_length_months, loan_amount), 1),
     EndBalance   |-> None]

\* Lines 138-141: the first month's ending balance.
RunningFirst(json, m, loan_amount) ==
    IF json[m].StartBalance = Some(loan_amount) /\ json[m].EndBalance = None
    THEN [json EXCEPT ![m].EndBalance =
              Some(RoundMils(loan_amount - json[m].PrincipalDue, 10))]
    ELSE json

\* Lines 143-152: a later month takes the month before's ending balance.
RunningLater(json, m) ==
    IF json[m].StartBalance = None /\ json[m].EndBalance = None
    THEN LET previous_month_end_balance == Val(json[m - 1].EndBalance)
             end_balance == previous_month_end_balance - json[m].PrincipalDue
         IN  [json EXCEPT
                ![m].StartBalance = Some(previous_month_end_balance),
                ![m].EndBalance =
                    IF previous_month_end_balance < json[m].AmountDue
                    THEN Some(RoundMils(end_balance, 100))
                    ELSE Some(RoundMils(end_balance, 10))]
    ELSE json

\* Lines 135-152: the loop over the months, in order.
RECURSIVE RunningBalance(_, _, _)
RunningBalance(json, m, loan_amount) ==
    IF m > Len(json) THEN json
    ELSE RunningBalance(RunningLater(RunningFirst(json, m, loan_amount), m),
                        m + 1, loan_amount)

\* [raised, due_dates, json]: raised names the exception that ends the call
\* (due_dates[term_month - 1] with too short a list), "none" when it returns.
calculate_amortization(origination_date, loan_amount, interest_rate_annual, term_length_months) ==
    LET interest_rate_monthly == MonthlyRate(interest_rate_annual)
        payments_start_date == AddMonths(origination_date, 1)
        dates == list_due_dates(payments_start_date,
                                AddMonths(payments_start_date, term_length_months))
    IN  IF Len(dates) < term_length_months
        THEN [raised |-> "IndexError", due_dates |-> dates, json |-> <<>>]
        ELSE [raised |-> "none",
              due_dates |-> dates,
              json |-> RunningBalance(
                          [t \in 1..term_length_months |->
                              FirstEntry(t, dates, loan_amount,
                                         interest_rate_monthly, term_length_months)],
                          1, loan_amount)]

\* Line 78: a month before the balloon month.
BalloonBefore(json, m) == [json EXCEPT ![m].ExtraPayment = Some(0)]

\* Lines 80-89: the balloon month itself.
BalloonAt(json, m) ==
    LET start_balance == Val(json[m - 1].StartBalance)
        current_interest == json[m].InterestDue
        current_payment_due == json[m].AmountDue
        payoff_amount == start_balance + current_interest
        extra_payment == payoff_amount - current_payment_due
        end_balance == payoff_amount - current_payment_due - extra_payment
    IN  [json EXCEPT ![m].ExtraPayment = Some(RoundMils(extra_payment, 10)),
                     ![m].EndBalance = Some(RoundMils(end_balance, 10))]

\* Lines 91-97: a month after the balloon month.
BalloonAfter(json, m) ==
    [json EXCEPT ![m].StartBalance = Some(0),
                 ![m].AmountDue = 0,
                 ![m].ExtraPayment = Some(0),
                 ![m].TotalPayment = Some(0),
                 ![m].PrincipalDue = 0,
                 ![m].InterestDue = 0,
                 ![m].EndBalance = Some(0)]

\* Lines 76-97: the loop over the months, in order, from month m on. The dict is
\* changed in place, so what was done before an exception stays done.
RECURSIVE BalloonLoop(_, _, _)
BalloonLoop(json, m, balloon_month) ==
    IF m > Len(json) THEN [raised |-> "none", json |-> json]
    ELSE IF m < balloon_month
         THEN BalloonLoop(BalloonBefore(json, m), m + 1, balloon_month)
    ELSE IF m = balloon_month
         THEN IF (m - 1) \in DOMAIN json
              THEN BalloonLoop(BalloonAt(json, m), m + 1, balloon_month)
              ELSE [raised |-> "KeyError", json |-> json]
    ELSE BalloonLoop(BalloonAfter(json, m), m + 1, balloon_month)

apply_balloon_payment(json, balloon_month) == BalloonLoop(json, 1, balloon_month)

\* "${:,.2f}".format(x): the text of x rounded to 2 decimals, sign included.
\* The text is held as the rounded value, in mils.
FormatMoney(x) == RoundMils(x, 10)

\* Lines 54-71: one row of the exported table.
ExportRow(json, i) ==
    LET extra_payment == IF json[i].ExtraPayment = None THEN 0
                         ELSE Val(json[i].ExtraPayment)
        total_payment == IF json[i].ExtraPayment = None THEN json[i].AmountDue
                         ELSE json[i].AmountDue + extra_payment
    IN  [PaymentNumber    |-> i,
         PaymentDate      |-> json[i].DueDate,
         BeginningBalance |-> FormatMoney(Val(json[i].StartBalance)),
         ScheduledPayment |-> FormatMoney(json[i].AmountDue),
         ExtraPayment     |-> FormatMoney(extra_payment),
         TotalPayment     |-> FormatMoney(total_payment),
         Principal        |-> FormatMoney(json[i].PrincipalDue),
         Interest         |-> FormatMoney(json[i].InterestDue),
         EndingBalance    |-> FormatMoney(Val(json[i].EndBalance))]

export_amortization_csv(json) == [i \in 1..Len(json) |-> ExportRow(json, i)]

\* Line 30: "if args.balloon_month:" is false for an absent option and for 0.
Truthy(balloon_month) == balloon_month # None /\ Val(balloon_month) # 0

\* Lines 22-35: one run of the builder, as [raised, due_dates, json, csv]; csv is
\* <<>> when the run ends before the export.
BuildResult(a) ==
    LET built == calculate_amortization(a.origination_date, a.amount, a.interest, a.length)
        ballooned == IF built.raised = "none" /\ Truthy(a.balloon_month)
                     THEN apply_balloon_payment(built.json, Val(a.balloon_month))
                     ELSE [raised |-> built.raised, json |-> built.json]
    IN  [raised    |-> ballooned.raised,
         due_dates |-> built.due_dates,
         json      |-> ballooned.json,
         csv       |-> IF ballooned.raised = "none"
                       THEN export_amortization_csv(ballooned.json) ELSE <<>>]

(***************************************************************************)
(* The command lines the builder is run with.                              *)
(***************************************************************************)
LoanAmounts == {10000000, 100}           \* 10,000.00 and 0.10, in mils
InterestRates == {<<12, 100>>, <<24, 100>>}   \* 0.12 and 0.24
OriginationDates ==
    {DateTime(2024, 1, 1, 0), DateTime(2024, 1, 3, 0), DateTime(2024, 1, 31, 0),
     DateTime(2023, 11, 30, 0), DateTime(2023, 12, 10, 0)}
BalloonMonths == {None} \cup {Some(b) : b \in (-1)..(MaxTerm + 1)}

BuildArgs ==
    [amount : LoanAmounts, interest : InterestRates, length : 1..MaxTerm,
     origination_date : OriginationDates, balloon_month : BalloonMonths]

NoArgs == [amount |-> 0, interest |-> <<0, 1>>, length |-> 0,
           origination_date |-> DateTime(0, 0, 0, 0), balloon_month |-> None]

\* Each command line with what the builder does for it (computed once).
BuildRuns == {<<a, BuildResult(a)>> : a \in BuildArgs}

\* build-amortization-table.py, lines 22-35 (run), for the command line a, r being
\* BuildResult(a): a failed run leaves the table file as it was.
RunBuild(a, r) ==
    /\ builds < MaxBuilds
    /\ builds' = builds + 1
    /\ args' = a
    /\ due_dates' = r.due_dates
    /\ amortization_json' = r.json
    /\ build_error' = r.raised
    /\ amortization_csv' = IF r.raised = "none" THEN r.csv ELSE amortization_csv
    /\ UNCHANGED <<payments_csv, payment_error, payment_json, receipt_error>>

InitTable ==
    /\ builds = 0
    /\ args = NoArgs
    /\ due_dates = <<>>
    /\ amortization_json = <<>>
    /\ build_error = "none"
    /\ amortization_csv = <<>>
    /\ payments_csv = <<>>
    /\ payment_error = "none"
    /\ payment_json = None
    /\ receipt_error = "none"

NextTable == \E run \in BuildRuns : RunBuild(run[1], run[2])

SpecTable == InitTable /\ [][NextTable]_vars

(***************************************************************************)
(* Text: str(int), int(str), str.lower()                                   *)
(***************************************************************************)
DigitChars == <<"0", "1", "2", "3", "4", "5", "6", "7", "8", "9">>
UpperChars == <<"A", "B", "C", "D", "E", "F", "G", "H", "I", "J", "K", "L", "M",
                "N", "O", "P", "Q", "R", "S", "T", "U", "V", "W", "X", "Y", "Z">>
LowerChars == <<"a", "b", "c", "d", "e", "f", "g", "h", "i", "j", "k", "l", "m",
                "n", "o", "p", "q", "r", "s", "t", "u", "v", "w", "x", "y", "z">>

IsDigit(c) == \E i \in DOMAIN DigitChars : DigitChars[i] = c
DigitValue(c) == (CHOOSE i \in DOMAIN DigitChars : DigitChars[i] = c) - 1

\* str(n): the decimal text of an integer
RECURSIVE IntText(_)
IntText(n) ==
    IF n < 0 THEN <<"-">> \o IntText(-n)
    ELSE IF n < 10 THEN <<DigitChars[n + 1]>>
    ELSE IntText(n \div 10) \o <<DigitChars[(n % 10) + 1]>>

\* str.lower()
LowerChar(c) ==
    IF \E i \in DOMAIN UpperChars : UpperChars[i] = c
    THEN LowerChars[CHOOSE i \in DOMAIN UpperChars : UpperChars[i] = c]
    ELSE c

Lower(text) == [i \in DOMAIN text |-> LowerChar(text[i])]

\* str.strip() of blanks, as int() does before it reads the number
RECURSIVE LStrip(_)
LStrip(text) ==
    IF text # <<>> /\ Head(text) = " " THEN LStrip(Tail(text)) ELSE text

RECURSIVE RStrip(_)
RStrip(text) ==
    IF text # <<>> /\ text[Len(text)] = " "
    THEN RStrip(SubSeq(text, 1, Len(text) - 1)) ELSE text

\* The digits of an integer literal: decimal digits, with single underscores
\* allowed between two digits.
IsDigitString(body) ==
    /\ body # <<>>
    /\ \A i \in DOMAIN body :
          \/ IsDigit(body[i])
          \/ /\ body[i] = "_"
             /\ 1 < i /\ i < Len(body)
             /\ IsDigit(body[i - 1]) /\ IsDigit(body[i + 1])

RECURSIVE DigitStringValue(_)
DigitStringValue(body) ==
    IF body = <<>> THEN 0
    ELSE LET c == body[Len(body)]
             front == SubSeq(body, 1, Len(body) - 1)
         IN  IF c = "_" THEN DigitStringValue(front)
             ELSE DigitStringValue(front) * 10 + DigitValue(c)

\* int(text): Some(n) for blanks, an optional sign and a digit string, None
\* (ValueError) for every other text.
ParseInt(text) ==
    LET stripped == RStrip(LStrip(text))
        signed == stripped # <<>> /\ Head(stripped) \in {"+", "-"}
        body == IF signed THEN Tail(stripped) ELSE stripped
    IN  IF IsDigitString(body)
        THEN Some(IF signed /\ Head(stripped) = "-"
                  THEN -DigitStringValue(body) ELSE DigitStringValue(body))
        ELSE None

(***************************************************************************)
(* create_receipt_pdf.py                                                   *)
(***************************************************************************)
\* float(text.strip('$')) of a money text of the ledger file: the text of an
\* amount of 1,000.00 or more holds a thousands separator, which float() does
\* not read (None: ValueError). The text is held as its value, in mils.
StripFloat(text) == IF Abs(text) >= 1000000 THEN None ELSE Some(text)

\* Lines 230-237, as [raised, payment_type]: int() of line 230 raises
\* ValueError for a text that is not an integer, before any "elif".
payment_type(check_number) ==
    LET number == ParseInt(check_number)
    IN  IF number = None
        THEN [raised |-> "ValueError", payment_type |-> None]
        ELSE IF Val(number) \in Int
        THEN [raised |-> "none", payment_type |-> Some("check")]
        ELSE IF Lower(check_number) = <<"a", "c", "h">>
        THEN [raised |-> "none", payment_type |-> Some("ach")]
        ELSE IF Lower(check_number) = <<"c", "a", "s", "h">>
        THEN [raised |-> "none", payment_type |-> Some("cash")]
        ELSE [raised |-> "none", payment_type |-> Some("unknown")]

\* Lines 217-239, as [raised, payment_json]: raised names the exception that
\* ends the call, "none" when it returns.
payment_details(record_of_payments) ==
    IF record_of_payments = <<>>
    THEN [raised |-> "IndexError", payment_json |-> None]
    ELSE LET latest_payment == record_of_payments[Len(record_of_payments)]
             principal_due == StripFloat(latest_payment.Principal)
             interest_due == StripFloat(latest_payment.Interest)
             payment_amount == StripFloat(latest_payment.ReceivedAmount)
             late_fee == StripFloat(latest_payment.LateFee)
             type == payment_type(latest_payment.CheckNumber)
         IN  IF None \in {principal_due, interest_due, payment_amount, late_fee}
             THEN [raised |-> "ValueError", payment_json |-> None]
             ELSE IF type.raised # "none"
             THEN [raised |-> type.raised, payment_json |-> None]
             ELSE [raised |-> "none",
                   payment_json |->
                      Some([principal_due  |-> Val(principal_due),
                            interest_due   |-> Val(interest_due),
                            payment_amount |-> Val(payment_amount),
                            payment_date   |-> latest_payment.ReceivedDate,
                            late_fee       |-> Val(late_fee),
                            payment_number |-> latest_payment.PaymentNumber,
                            due_date       |-> latest_payment.DueDate,
                            payment_type   |-> Val(type.payment_type)])]

(***************************************************************************)
(* payment-tracker.py                                                      *)
(***************************************************************************)
\* float(sub(r'[^\d.]', '', text)): every character but digits and the point
\* is dropped, the minus sign with them.
ParseMoney(text) == Abs(text)

\* Lines 138-145: one row of the table file, parsed.
ReadRow(row) ==
    [DueDate         |-> Strptime(row.PaymentDate),
     StartingBalance |-> ParseMoney(row.BeginningBalance),
     AmountDue       |-> ParseMoney(row.ScheduledPayment),
     Principal       |-> ParseMoney(row.Principal),
     Interest        |-> ParseMoney(row.Interest),
     EndingBalance   |-> ParseMoney(row.EndingBalance)]

\* Lines 131-147: the table, keyed by int(row["Payment Number"]).
read_amortization_table(amortization_table) ==
    [n \in {amortization_table[i].PaymentNumber : i \in DOMAIN amortization_table} |->
        ReadRow(CHOOSE row \in {amortization_table[i] : i \in DOMAIN amortization_table} :
                    row.PaymentNumber = n)]

Max(S) == CHOOSE x \in S : \A y \in S : y <= x

\* payment_number without the "+ 1" of line 126.
payment_number_stuck(record_of_payments) ==
    IF Len(record_of_payments) = 0 THEN 1
    ELSE Max({record_of_payments[i].PaymentNumber : i \in DOMAIN record_of_payments})

\* Lines 117-128.
payment_number(record_of_payments) ==
    LET past_payments == [i \in DOMAIN record_of_payments |->
                              record_of_payments[i].PaymentNumber]
    IN  IF Len(past_payments) = 0 THEN 1
        ELSE Max({past_payments[i] : i \in DOMAIN past_payments}) + 1

\* Lines 64-65: the first "if".
EndBalanceExact(entry, amount_received) ==
    IF amount_received = entry.AmountDue THEN Some(entry.EndingBalance) ELSE None

\* Lines 67-69: the second "if"; end_balance is what the first one left.
EndBalanceOver(entry, amount_received, end_balance) ==
    IF amount_received > entry.AmountDue \/ amount_received > entry.Interest
    THEN Some(entry.StartingBalance - (amount_received - entry.Interest))
    ELSE end_balance

\* EndBalanceUnder without the test "remaining_amount > 0" of line 76.
EndBalanceUnderUnguarded(entry, amount_received, end_balance) ==
    IF amount_received < entry.AmountDue
    THEN IF amount_received = entry.Interest
         THEN Some(entry.StartingBalance)
         ELSE Some(entry.StartingBalance - (amount_received - entry.Interest))
    ELSE end_balance

\* Lines 71-87: the third "if"; end_balance is what the second one left.
EndBalanceUnder(entry, amount_received, end_balance) ==
    IF amount_received < entry.AmountDue
    THEN IF amount_received = entry.Interest
         THEN Some(entry.StartingBalance)
         ELSE LET remaining_amount == amount_received - entry.Interest
              IN  IF remaining_amount > 0
                  THEN Some(entry.StartingBalance - remaining_amount)
                  ELSE Some(entry.StartingBalance)
    ELSE end_balance

\* Lines 64-87: the three "if" statements, one after the other.
EndBalance(entry, amount_received) ==
    EndBalanceUnder(entry, amount_received,
        EndBalanceOver(entry, amount_received,
            EndBalanceExact(entry, amount_received)))

\* LateFeeAmount without the "* days_late" of line 92.
LateFeeFlat(principal_due, days_late) ==
    RoundMulDiv(principal_due \div 10, 18, 365) * 10

\* Line 92: round((principal_due * (18 / 365)) * days_late, 2), principal_due a
\* whole number of cents held in mils.
LateFeeAmount(principal_due, days_late) ==
    RoundMulDiv(principal_due \div 10, 18 * days_late, 365) * 10

\* Lines 90-96, as <<days_late, late_fee>>.
LateFee(entry, received_date) ==
    LET days_late == DaysBetween(received_date, entry.DueDate)
    IN  IF days_late > 0
        THEN <<days_late, FormatMoney(LateFeeAmount(entry.Principal, days_late))>>
        ELSE <<0, 0>>

\* Lines 63-114, entry being amortization_data[payment_number], as
\* [raised, update]: raised names the exception that ends the call, "none" when
\* it returns the ledger row update.
PaymentUpdate(payment, entry) ==
    LET end_balance == EndBalance(entry, payment.ReceivedAmount)
        late == LateFee(entry, payment.ReceivedDate)
    IN  IF end_balance = None
        THEN [raised |-> "UnboundLocalError", update |-> <<>>]
        ELSE [raised |-> "none",
              update |->
                 [PaymentNumber   |-> payment.PaymentNumber,
                  DueDate         |-> Strftime(entry.DueDate),
                  ReceivedDate    |-> Strftime(payment.ReceivedDate),
                  DaysLate        |-> late[1],
                  CheckNumber     |-> payment.CheckNumber,
                  StartingBalance |-> FormatMoney(entry.StartingBalance),
                  AmountDue       |-> FormatMoney(entry.AmountDue),
                  ReceivedAmount  |-> FormatMoney(payment.ReceivedAmount),
                  Principal       |-> FormatMoney(entry.Principal),
                  Interest        |-> FormatMoney(entry.Interest),
                  EndingBalance   |-> FormatMoney(Val(end_balance)),
                  LateFee         |-> late[2],
                  Notes           |-> payment.Notes]]

\* apply_payment falling back on the last entry of the table when no entry has
\* the payment's number, instead of the KeyError of line 57.
apply_payment_clamped(payment, amortization_data) ==
    IF payment.PaymentNumber \notin DOMAIN amortization_data
    THEN PaymentUpdate(payment, amortization_data[Max(DOMAIN amortization_data)])
    ELSE PaymentUpdate(payment, amortization_data[payment.PaymentNumber])

\* apply_payment starting from the ending balance of the ledger's last row,
\* instead of the entry's own starting balance of line 57.
apply_payment_carried(payment, amortization_data) ==
    IF payment.PaymentNumber \notin DOMAIN amortization_data
    THEN [raised |-> "KeyError", update |-> <<>>]
    ELSE PaymentUpdate(payment,
             [amortization_data[payment.PaymentNumber] EXCEPT !.StartingBalance =
                 IF payments_csv = <<>> THEN @
                 ELSE ParseMoney(payments_csv[Len(payments_csv)].EndingBalance)])

\* Lines 55-114, as [raised, update]: the lookups of lines 57-61 raise KeyError
\* when the table has no entry with the payment's number.
apply_payment(payment, amortization_data) ==
    IF payment.PaymentNumber \notin DOMAIN amortization_data
    THEN [raised |-> "KeyError", update |-> <<>>]
    ELSE PaymentUpdate(payment, amortization_data[payment.PaymentNumber])

\* Lines 46-52: the row is appended to the file; csv.writer writes the check
\* number, an int, as its decimal text.
update_record_of_payments(payments, payment_update) ==
    Append(payments, [payment_update EXCEPT !.CheckNumber = IntText(@)])

\* create_receipt_pdf.py, lines 19-26 (run), on the ledger file as it is now:
\* payment_details, then the drawing of the receipt from what it returned.
RunReceipt ==
    \E details \in {payment_details(payments_csv)} :
        /\ receipt_error' = details.raised
        /\ payment_json' = details.payment_json
        /\ UNCHANGED <<builds, args, due_dates, amortization_json, build_error,
                       amortization_csv, payments_csv, payment_error>>

\* payment-tracker.py, lines 21-43 (run), for the parsed command line
\* --payment collected --date collected_date --check_numb check_num --notes notes:
\* an exception ends the script before anything is written; after a run that
\* returns, the script goes on to create_receipt_pdf.run() (line 164), which
\* reads the ledger file with the new row in it.
RunTracker(collected, collected_date, check_num, notes) ==
    LET payment == [PaymentNumber  |-> payment_number(payments_csv),
                    ReceivedAmount |-> collected,
                    ReceivedDate   |-> collected_date,
                    CheckNumber    |-> check_num,
                    Notes          |-> notes]
    IN  \E applied \in {apply_payment(payment, read_amortization_table(amortization_csv))} :
          /\ payment_error' = applied.raised
          /\ payments_csv' = IF applied.raised = "none"
                             THEN update_record_of_payments(payments_csv, applied.update)
                             ELSE payments_csv
          /\ IF applied.raised = "none"
             THEN \E details \in {payment_details(
                                     update_record_of_payments(payments_csv, applied.update))} :
                      /\ receipt_error' = details.raised
                      /\ payment_json' = details.payment_json
             ELSE UNCHANGED <<payment_json, receipt_error>>
          /\ UNCHANGED <<builds, args, due_dates, amortization_json, build_error,
                         amortization_csv>>

\* Lines 150-164: argparse reads --check_numb with type=int and ends the script
\* (SystemExit) on a text that int() does not read; otherwise run(args), and the
\* receipt after it.
TrackerMain(collected, collected_date, check_numb, notes) ==
    IF ParseInt(check_numb) = None
    THEN /\ payment_error' = "SystemExit"
         /\ UNCHANGED <<builds, args, due_dates, amortization_json, build_error,
                        amortization_csv, payments_csv, payment_json, receipt_error>>
    ELSE RunTracker(collected, collected_date, Val(ParseInt(check_numb)), notes)

(***************************************************************************)
(* The command lines the tracker is run with. The amounts are taken around *)
(* the interest and the amount due of the table row the payment falls on   *)
(* (or of the last row, when the ledger is already as long as the table),  *)
(* the dates around that row's due date.                                   *)
(***************************************************************************)
CurrentRow ==
    LET n == payment_number(payments_csv)
    IN  IF n <= Len(amortization_csv) THEN amortization_csv[n]
        ELSE amortization_csv[Len(amortization_csv)]

CollectedAmounts ==
    LET entry == ReadRow(CurrentRow)
    IN  {entry.AmountDue, entry.AmountDue + 100000, entry.Interest + 10,
         entry.Interest, entry.Interest - 10}     \* 100000 mils = 100.00, 10 mils = 0.01

CollectedDates ==
    LET due == Strptime(CurrentRow.PaymentDate)
    IN  {[due EXCEPT !.day = 9], [due EXCEPT !.day = 12]}

\* The tables the tracker is run on: a 10,000.00 loan over MaxTerm months, as
\* built and with a balloon payment in month 2, and a 0.10 loan over one month.
TrackerTables ==
    {run \in BuildRuns :
        /\ run[1].interest = <<12, 100>>
        /\ run[1].origination_date = DateTime(2024, 1, 1, 0)
        /\ \/ /\ run[1].amount = 10000000
              /\ run[1].length = MaxTerm
              /\ run[1].balloon_month \in {None, Some(2)}
           \/ /\ run[1].amount = 100
              /\ run[1].length = 1
              /\ run[1].balloon_month = None}

\* The tracker starts from a table the builder has exported and an empty ledger.
Init ==
    /\ \E run \in TrackerTables :
          /\ builds = 1
          /\ args = run[1]
          /\ due_dates = run[2].due_dates
          /\ amortization_json = run[2].json
          /\ build_error = run[2].raised
          /\ amortization_csv = run[2].csv
    /\ payments_csv = <<>>
    /\ payment_error = "none"
    /\ payment_json = None
    /\ receipt_error = "none"

\* What is given as --check_numb: a check number, or a payment type.
CheckNumb == <<"1", "0", "0", "1">>
PaymentTypes == {<<"A", "C", "H">>, <<"c", "a", "s", "h">>}

\* A payment by check, of each amount on each date; a payment of the amount due
\* on the due date, by each payment type.
Next ==
    \/ \E collected \in CollectedAmounts, collected_date \in CollectedDates :
          TrackerMain(collected, collected_date, CheckNumb, "")
    \/ \E check_numb \in PaymentTypes :
          TrackerMain(ReadRow(CurrentRow).AmountDue, Strptime(CurrentRow.PaymentDate),
                      check_numb, "")

Spec == Init /\ [][Next]_vars

(***************************************************************************)
(* The receipt writer run on its own (create_receipt_pdf.py, main): the    *)
(* ledger file is empty, or its last row is a row the tracker writes for a *)
(* first payment, with the check number column as it was filled in.        *)
(***************************************************************************)
CheckTokens ==
    {<<"1", "0", "0", "1">>, <<" ", "7", " ">>, <<"-", "5">>, <<"1", "_", "0">>,
     <<"A", "C", "H">>, <<"a", "c", "h">>, <<"C", "A", "S", "H">>,
     <<"C", "a", "s", "h">>, <<"M", "O">>, <<"1", "2", "a">>, <<>>}

ReceiptLedgers ==
    {<<>>} \cup
    UNION {LET table == read_amortization_table(run[2].csv)
               due == table[1].DueDate
           IN  {<<[apply_payment([PaymentNumber  |-> 1,
                                  ReceivedAmount |-> collected,
                                  ReceivedDate   |-> collected_date,
                                  CheckNumber    |-> 0,
                                  Notes          |-> ""], table).update
                     EXCEPT !.CheckNumber = token]>> :
                   collected \in {table[1].AmountDue, table[1].Interest},
                   collected_date \in {[due EXCEPT !.day = 9], [due EXCEPT !.day = 12]},
                   token \in CheckTokens} :
           run \in TrackerTables}

InitReceipt ==
    /\ builds = 0
    /\ args = NoArgs
    /\ due_dates = <<>>
    /\ amortization_json = <<>>
    /\ build_error = "none"
    /\ amortization_csv = <<>>
    /\ payments_csv \in ReceiptLedgers
    /\ payment_error = "none"
    /\ payment_json = None
    /\ receipt_error = "none"

NextReceipt == RunReceipt

SpecReceipt == InitReceipt /\ [][NextReceipt]_vars

(***************************************************************************)
(* Properties                                                              *)
(***************************************************************************)
Ledger == {payments_csv[i] : i \in DOMAIN payments_csv}
Table == read_amortization_table(amortization_csv)
Built == builds > 0 /\ build_error = "none"
BalloonIn(S) == args.balloon_month # None /\ Val(args.balloon_month) \in S

\* C1: a payment of exactly the scheduled amount due is written to the ledger
\* with the schedule's own ending balance for that period.
C1_ExactPaymentKeepsScheduleBalance ==
    \A row \in Ledger :
        row.ReceivedAmount = row.AmountDue
            => row.EndingBalance = FormatMoney(Table[row.PaymentNumber].EndingBalance)

\* C2: days late is the whole-day difference received date - due date; when it
\* is positive the late fee is principal due * (0.18 / 365) * days late rounded
\* to 2 decimals, otherwise the late fee is 0 and days late is recorded as 0.
C2_LateFeeAtEighteenPercent ==
    \A row \in Ledger :
        LET days == DaysBetween(Strptime(row.ReceivedDate), Strptime(row.DueDate))
        IN  IF days > 0
            THEN /\ row.DaysLate = days
                 /\ row.LateFee = RoundMulDiv(row.Principal \div 10, 18 * days, 36500) * 10
            ELSE row.DaysLate = 0 /\ row.LateFee = 0

\* C3: the extra payment stored on the balloon period b is (starting balance of
\* period b + interest due in period b) - scheduled amount due of period b.
C3_PayoffFromOwnStartingBalance ==
    (Built /\ BalloonIn(1..args.length)) =>
        LET b == Val(args.balloon_month)
            payoff_amount == Val(amortization_json[b].StartBalance)
                             + amortization_json[b].InterestDue
        IN  amortization_json[b].ExtraPayment
              = Some(RoundMils(payoff_amount - amortization_json[b].AmountDue, 10))

\* C4: for every target period b in 1..N the balloon adjustment completes;
\* period b then ends at 0.00, every later period has all its monetary fields
\* 0, and every earlier period is as built but for an extra payment of 0.
C4_BalloonAdjustsEveryPeriod ==
    (builds > 0 /\ BalloonIn(1..args.length)) =>
        LET b == Val(args.balloon_month)
            built == calculate_amortization(args.origination_date, args.amount,
                                            args.interest, args.length).json
        IN  /\ build_error = "none"
            /\ amortization_json[b].EndBalance = Some(0)
            /\ \A m \in (b + 1)..args.length :
                  amortization_json[m] =
                      [built[m] EXCEPT !.StartBalance = Some(0), !.AmountDue = 0,
                                       !.ExtraPayment = Some(0), !.TotalPayment = Some(0),
                                       !.PrincipalDue = 0, !.InterestDue = 0,
                                       !.EndBalance = Some(0)]
            /\ \A m \in 1..(b - 1) :
                  amortization_json[m] = [built[m] EXCEPT !.ExtraPayment = Some(0)]

\* A tracker run has appended exactly one row, numbered max(existing payment
\* numbers) + 1 (1 for an empty ledger), to the rows that were there.
LedgerAppended ==
    /\ Len(payments_csv') = Len(payments_csv) + 1
    /\ SubSeq(payments_csv', 1, Len(payments_csv)) = payments_csv
    /\ payments_csv'[Len(payments_csv')].PaymentNumber =
          IF payments_csv = <<>> THEN 1
          ELSE Max({payments_csv[i].PaymentNumber : i \in DOMAIN payments_csv}) + 1
    /\ \A i \in DOMAIN payments_csv' : payments_csv'[i].PaymentNumber = i

\* C5: each payment application that goes through appends exactly one row,
\* numbered max(existing payment numbers) + 1 (1 for an empty ledger), and
\* leaves the rows before it as they were, so that the ledger's payment numbers
\* are 1..n in order; an application that fails writes nothing.
C5_LedgerNumberedInOrder ==
    [][IF payment_error' = "none" THEN LedgerAppended
       ELSE payments_csv' = payments_csv]_vars

C5_Witness ==
    /\ Len(payments_csv) >= 2
    /\ payment_error = "none"
    /\ \A i \in DOMAIN payments_csv : payments_csv[i].PaymentNumber = i

\* The month of a due date text, counted from year 0.
MonthIndex(text) == text[3] * 12 + text[1]

\* C6: list_due_dates, called as calculate_amortization calls it, returns
\* exactly term_length dates, each on the 10th, in consecutive months.
C6_OneDueDatePerPeriod ==
    builds > 0 =>
        /\ Len(due_dates) = args.length
        /\ \A i \in DOMAIN due_dates : due_dates[i][2] = 10
        /\ \A i \in 1..(Len(due_dates) - 1) :
              MonthIndex(due_dates[i + 1]) = MonthIndex(due_dates[i]) + 1

\* C7: a balloon month outside 1..term length makes the run fail with an error
\* and export no table.
C7_OutOfRangeBalloonFails ==
    (builds > 0 /\ args.balloon_month # None
                /\ Val(args.balloon_month) \notin 1..args.length)
        => build_error # "none" /\ amortization_csv = <<>>

\* C8: for a received amount other than the amount due, the ending balance is
\* starting balance - (received - interest due) when the received amount is
\* above the amount due or above the interest due, and the starting balance
\* otherwise; an ending balance is always defined.
C8_EndingBalanceByAmount ==
    /\ payment_error # "UnboundLocalError"
    /\ \A row \in Ledger :
          row.ReceivedAmount # row.AmountDue =>
              IF row.ReceivedAmount > row.AmountDue \/ row.ReceivedAmount > row.Interest
              THEN row.EndingBalance
                     = FormatMoney(row.StartingBalance - (row.ReceivedAmount - row.Interest))
              ELSE row.EndingBalance = row.StartingBalance

C8_Witness ==
    /\ \E row \in Ledger : row.ReceivedAmount > row.AmountDue
    /\ \E row \in Ledger : /\ row.ReceivedAmount < row.AmountDue
                           /\ row.ReceivedAmount > row.Interest
    /\ \E row \in Ledger : /\ row.ReceivedAmount < row.AmountDue
                           /\ row.ReceivedAmount <= row.Interest
                           /\ row.EndingBalance = row.StartingBalance

\* The late fee of the table entry a ledger row was written for (the row holds
\* the entry's due date and principal due), had the payment been received days
\* after the due date.
FeeAfter(row, days) ==
    LateFee([DueDate |-> Strptime(row.DueDate), Principal |-> ParseMoney(row.Principal)],
            AddDays(Strptime(row.DueDate), days))[2]

\* <<days, fee>> for 1..MaxDaysLate days late.
FeesAfter(row) == {<<d, FeeAfter(row, d)>> : d \in 1..MaxDaysLate}

IsLate(row) == DaysBetween(Strptime(row.ReceivedDate), Strptime(row.DueDate)) > 0

\* C9 as stated: the late fee is 0 for a payment received on or before the due
\* date; for every entry and every later date it is strictly positive, and it
\* strictly increases with the number of days late.
C9_LateFeeStrictlyPositive ==
    \A row \in Ledger :
        /\ IF IsLate(row) THEN row.LateFee > 0 ELSE row.LateFee = 0
        /\ \A f, g \in FeesAfter(row) : f[1] < g[1] => f[2] < g[2]

\* C9 as amended: the late fee is 0 for a payment received on or before the due
\* date; for a later date it is never negative and never decreases with the
\* number of days late, it is 0 for an entry with no principal due, and it is
\* strictly positive and strictly increasing for an entry with a principal due
\* of at least 0.21 (210 mils).
C9_LateFeeMonotone ==
    \A row \in Ledger :
        /\ IF IsLate(row)
           THEN /\ row.LateFee >= 0
                /\ row.Principal = 0 => row.LateFee = 0
                /\ row.Principal >= 210 => row.LateFee > 0
           ELSE row.LateFee = 0
        /\ LET fees == FeesAfter(row)
           IN  \A f, g \in fees :
                  /\ f[1] < g[1] => f[2] <= g[2]
                  /\ row.Principal = 0 => f[2] = 0
                  /\ row.Principal >= 210 => f[2] > 0 /\ (f[1] < g[1] => f[2] < g[2])

C9_Witness ==
    /\ \E row \in Ledger : ~IsLate(row) /\ row.LateFee = 0
    /\ \E row \in Ledger : IsLate(row) /\ row.Principal >= 210 /\ row.LateFee > 0
    /\ \E row \in Ledger : IsLate(row) /\ row.Principal = 0 /\ row.LateFee = 0

\* C10: in every schedule the builder produces, adjusted or not, period 1
\* starts at the loan principal and every later period starts at the ending
\* balance of the period before it.
C10_BalancesChain ==
    Built =>
        /\ amortization_json[1].StartBalance = Some(args.amount)
        /\ \A t \in 2..args.length :
              amortization_json[t].StartBalance = amortization_json[t - 1].EndBalance

\* The receipt writer has run: it has returned something or raised.
ReceiptRan == payment_json # None \/ receipt_error # "none"

LatestPayment == payments_csv[Len(payments_csv)]

\* Every money column of the row the receipt is written from is read.
MoneyRead(row) ==
    None \notin {StripFloat(row.Principal), StripFloat(row.Interest),
                 StripFloat(row.ReceivedAmount), StripFloat(row.LateFee)}

\* The classification of a reference token: 'check' for a number, 'ach' and
\* 'cash' for these words in any case, 'unknown' for everything else.
TokenClass(token) ==
    IF ParseInt(token) # None THEN "check"
    ELSE IF Lower(token) = <<"a", "c", "h">> THEN "ach"
    ELSE IF Lower(token) = <<"c", "a", "s", "h">> THEN "cash"
    ELSE "unknown"

\* C11: classifying the reference token of the latest ledger row never fails:
\* a number is classified 'check', ACH and CASH (in any case) 'ach' and 'cash',
\* and every other token 'unknown', without the receipt run being aborted.
C11_ReferenceTokenAlwaysClassified ==
    (ReceiptRan /\ payments_csv # <<>> /\ MoneyRead(LatestPayment)) =>
        /\ receipt_error = "none"
        /\ payment_json # None
        /\ Val(payment_json).payment_type = TokenClass(LatestPayment.CheckNumber)

\* The ledger holds as many payments as the table has periods: the next payment
\* number is past the last period.
LedgerFull == payment_number(payments_csv) > Len(amortization_csv)

\* C12: when the ledger already holds as many payments as the schedule has
\* periods, a payment application fails with an error before anything is
\* written: no row is appended, the ledger is left exactly as it was (and no
\* receipt is written either).
C12_FullLedgerRejectsPayment ==
    [][LedgerFull => /\ payment_error' # "none"
                     /\ UNCHANGED <<payments_csv, payment_json, receipt_error>>]_vars

C12_Witness ==
    /\ LedgerFull
    /\ Len(payments_csv) = Len(amortization_csv)
    /\ payment_error = "KeyError"

\* C13: the starting balance, amount due, principal and interest of ledger row
\* k are the schedule's values for period k, whatever was received in the
\* payments before it.
C13_RowCopiesItsPeriod ==
    \A k \in DOMAIN payments_csv :
        LET row == payments_csv[k]
            period == amortization_csv[row.PaymentNumber]
        IN  /\ row.PaymentNumber = k
            /\ row.StartingBalance = period.BeginningBalance
            /\ row.AmountDue = period.ScheduledPayment
            /\ row.Principal = period.Principal
            /\ row.Interest = period.Interest

\* An over- and an under-payment, each followed by a row that starts at the
\* schedule's balance and not at the ending balance of the row before it.
C13_Witness ==
    /\ \E k \in 1..(Len(payments_csv) - 1) :
          /\ payments_csv[k].ReceivedAmount > payments_csv[k].AmountDue
          /\ payments_csv[k + 1].StartingBalance > payments_csv[k].EndingBalance
    /\ \E k \in 1..(Len(payments_csv) - 1) :
          /\ payments_csv[k].ReceivedAmount < payments_csv[k].AmountDue
          /\ payments_csv[k + 1].StartingBalance < payments_csv[k].EndingBalance

====
